---- MODULE Spec2Model ----
(***************************************************************************)
(* TabVault: the background service worker (tab tracking, stale scan,      *)
(* close-and-log pipeline) and the options page's threshold setting.       *)
(*                                                                         *)
(* Every listener call is an invocation in `procs`.  An invocation takes   *)
(* one step per `await`: the step is the effect of the awaited chrome API  *)
(* call together with the synchronous code that runs when its promise      *)
(* settles, up to the next API call.  The two calls of a Promise.all       *)
(* settle in two steps, in either order.  Between two steps of an          *)
(* invocation any other invocation, browser event or clock tick may        *)
(* happen.                                                                 *)
(***************************************************************************)
EXTENDS Integers, Sequences, FiniteSets, TLC

\* ------------------------------------------------------------------ bounds
MaxTabs == 2        \* tab ids the browser hands out in one behaviour
MaxDays == 1        \* the clock runs over days 0..MaxDays
MaxInflight == 2    \* listener invocations in flight at the same time
MaxFaults == 1      \* chrome.storage calls that reject in one behaviour
MaxEvents == 3      \* browser events (tab, alarm, startup) in one behaviour
MaxLen == 3         \* characters of a title on the options page
MaxQueue == 3       \* closed items in the queue when the options page opens

\* ------------------------------------------------------- program constants
STALE_THRESHOLD_MS == 24 * 60 * 60 * 1000
ALARM_NAME == "check-stale-tabs"
TAB_METADATA_KEY == "tabMetadata"
CLOSED_ITEMS_KEY == "closedItems"
INACTIVITY_THRESHOLD_KEY == "inactivityThresholdHours"

HOUR_MS == 60 * 60 * 1000

\* --------------------------------------------------------------- domains
TabIds == 1..MaxTabs

\* Values Date.now() takes: the start and the first millisecond of each day
\* (Instants), and the 23rd hour of day 0.
Instants == {d * STALE_THRESHOLD_MS + o : d \in 0..MaxDays, o \in {0, 1}}
Times == Instants \cup {23 * HOUR_MS}

\* URLs a tab shows; "" is a tab whose url is not (yet) set.
Urls == {"http://x", "https://y", "chrome://z", ""}
Titles == {"", "T"}

\* ---------------------------------------------------------- pure helpers
\* a || b on strings and on numbers: the first operand unless it is falsy.
OrStr(a, b) == IF a # "" THEN a ELSE b
OrNum(a, b) == IF a # 0 THEN a ELSE b

Digits == <<"0", "1", "2", "3", "4", "5", "6", "7", "8", "9">>

\* String(tab.id): the decimal text of a tab id, the key of its record.
RECURSIVE String(_)
String(n) == IF n < 10 THEN Digits[n + 1]
             ELSE String(n \div 10) \o Digits[(n % 10) + 1]

\* new URL(url).protocol for the URLs of the model; "throws" when the URL
\* constructor rejects the text.
URLProtocol(url) ==
  CASE url = "http://x"   -> "http:"
    [] url = "https://y"  -> "https:"
    [] url = "chrome://z" -> "chrome:"
    [] OTHER              -> "throws"

\* A variant that accepts every URL that parses, whatever its scheme.
isSupportedHttpUrlAny(url) ==
  IF url = "" THEN FALSE ELSE URLProtocol(url) # "throws"

isSupportedHttpUrl(url) ==
  IF url = "" THEN FALSE
  ELSE IF URLProtocol(url) = "throws" THEN FALSE
  ELSE URLProtocol(url) = "http:" \/ URLProtocol(url) = "https:"

\* A JS object used as a map: a function whose domain is the keys present.
MapSet(m, k, v) == [x \in DOMAIN m \cup {k} |-> IF x = k THEN v ELSE m[x]]
\* A variant of the delete that removes nothing.
MapDeleteNone(m, k) == m

MapDelete(m, k) == [x \in DOMAIN m \ {k} |-> m[x]]
EmptyMap == [x \in {} |-> 0]

\* A variant that stamps the record with the epoch instead of now.
NewRecordEpoch(now, tab, title) ==
  [openedAt |-> 0, lastActiveAt |-> 0,
   firstUrl |-> OrStr(tab.url, ""), currentUrl |-> OrStr(tab.url, ""),
   title |-> title]

\* The record the handlers, the Initializer and the scan create for a tab.
NewRecord(now, tab, title) ==
  [openedAt |-> now, lastActiveAt |-> now,
   firstUrl |-> OrStr(tab.url, ""), currentUrl |-> OrStr(tab.url, ""),
   title |-> title]

\* ------------------------------------------------------------------ state
VARIABLES
  clock,          \* Date.now()
  tabs,           \* the browser's open tabs: tab id -> [id, url, pinned, title]
  nextTabId,      \* the id the browser gives the next tab (ids are not reused)
  storage,        \* chrome.storage.local
  alarm,          \* whether the alarm ALARM_NAME exists
  pendingRemoved, \* tab ids whose onRemoved event is not yet delivered
  procs,          \* the listener invocations in flight
  markdown,       \* the options page: the link lines of markdownOutputEl.value
  faults,         \* chrome.storage calls that have rejected so far
  events,         \* browser events dispatched so far
  quiet           \* history: <<the metadata store as the last Initializer run left
                  \* it>> while no tab has changed since, else <<>>

vars == <<clock, tabs, nextTabId, storage, alarm, pendingRemoved, procs, markdown,
          faults, events, quiet>>

\* --------------------------------------------------------- chrome.storage
\* result[TAB_METADATA_KEY] || {} of loadTabMetadata.
loadTabMetadata(st) ==
  IF TAB_METADATA_KEY \in DOMAIN st THEN st[TAB_METADATA_KEY] ELSE EmptyMap

\* A variant that keeps the stored records of the keys the map does not have.
saveTabMetadataMerging(st, map) ==
  LET old == IF TAB_METADATA_KEY \in DOMAIN st THEN st[TAB_METADATA_KEY] ELSE map
  IN  [x \in DOMAIN st \cup {TAB_METADATA_KEY} |->
         IF x = TAB_METADATA_KEY
         THEN [k \in DOMAIN old \cup DOMAIN map |-> IF k \in DOMAIN map THEN map[k] ELSE old[k]]
         ELSE st[x]]

\* chrome.storage.local.set({ [TAB_METADATA_KEY]: map }) of saveTabMetadata.
saveTabMetadata(st, map) == MapSet(st, TAB_METADATA_KEY, map)

\* result[CLOSED_ITEMS_KEY] || [] of loadClosedItems.
loadClosedItems(st) ==
  IF CLOSED_ITEMS_KEY \in DOMAIN st THEN st[CLOSED_ITEMS_KEY] ELSE <<>>

\* chrome.storage.local.set({ [CLOSED_ITEMS_KEY]: items }) of saveClosedItems.
saveClosedItems(st, items) == MapSet(st, CLOSED_ITEMS_KEY, items)

\* chrome.tabs.query({}): the lists it may answer with, the open tabs in the
\* order of the tab strip, which the user rearranges at will.
TabsQuery(tb) ==
  LET n == Cardinality(DOMAIN tb)
      orders == {f \in [1..n -> DOMAIN tb] : \A a, b \in 1..n : f[a] = f[b] => a = b}
  IN  {[k \in 1..n |-> tb[f[k]]] : f \in orders}

\* Whether a chrome.storage call of this step may reject, and the outcomes.
Outcomes(F) == IF faults < F THEN {TRUE, FALSE} ELSE {TRUE}
Fault(ok) == faults' = IF ok THEN faults ELSE faults + 1

\* ------------------------------------------------------------ invocations
NoTab == [id |-> 0, url |-> "", pinned |-> FALSE, title |-> ""]
NoChange == [url |-> "", title |-> "", status |-> ""]
NoItem == [openedAt |-> 0, closedAt |-> 0, url |-> "", title |-> ""]
NoPipe == [tabId |-> 0, item |-> NoItem, tried |-> {}, failed |-> {},
           calledAt |-> 0]  \* history: Date.now() in the step that made the call

\* A call of one of the tab listeners (created, updated, activated, removed).
Handler(kind, tabId, tab, change, eventUrl) ==
  [kind |-> kind, pc |-> "load", tabId |-> tabId, tab |-> tab, change |-> change,
   now |-> 0, loaded |-> EmptyMap, metadata |-> EmptyMap,
   saved |-> FALSE, thrown |-> FALSE,
   before |-> EmptyMap,     \* history: the store that the invocation's save replaced
   eventUrl |-> eventUrl]   \* history: the tab's URL when the event was dispatched

\* A call of the onInstalled / onStartup listener.
Initializer(event) ==
  [kind |-> "init", pc |-> "alarmget", event |-> event, tabsSnap |-> <<>>,
   now |-> 0, loaded |-> EmptyMap, metadata |-> EmptyMap, changed |-> FALSE,
   saved |-> FALSE, thrown |-> FALSE,
   before |-> EmptyMap, \* history: the store that the run's save replaced
   prior |-> quiet,     \* history: `quiet` when the run started
   second |-> FALSE]    \* history: the run ended with `quiet` still as it started

\* A call of checkForStaleTabs from the onAlarm listener.
Scan ==
  [kind |-> "scan", pc |-> "snapshot", tabsSnap |-> <<>>, now |-> 0,
   loaded |-> EmptyMap, metadata |-> EmptyMap, i |-> 0,
   cur |-> NoPipe, items |-> <<>>, pipes |-> <<>>,
   saved |-> FALSE, thrown |-> FALSE,
   before |-> EmptyMap,  \* history: the store that the scan's save replaced
   reads |-> 0,          \* history: how often the scan has read the tabs or the store
   writes |-> 0,         \* history: how often the scan has written the store
   hours |-> <<>>]       \* history: <<the persisted threshold>> when the sweep starts

\* A call of closeAndLogTab(tab, metaEntry) on its own; metaEntry is <<>> for
\* a call without a record, else <<the record>>.
Call(tab, metaEntry) ==
  [kind |-> "call", pc |-> "call", tab |-> tab, entry |-> metaEntry,
   cur |-> NoPipe, items |-> <<>>, pipes |-> <<>>, thrown |-> FALSE,
   before |-> [tabs |-> tabs, pendingRemoved |-> pendingRemoved,
               storage |-> storage]]  \* history: the state when it was called

Procs == 1..Len(procs)

\* An invocation that has ended is taken out of `procs` before anything else
\* happens: its last state stays visible for one step.
Ended == \E i \in Procs : procs[i].pc = "done"

\* One more browser event is dispatched.
Event(E) == ~Ended /\ events < E /\ events' = events + 1 /\ UNCHANGED markdown

\* Invocation i is at the await `pc` of a listener of kind `kind`.
At(i, kinds, pc) ==
  ~Ended /\ procs[i].kind \in kinds /\ procs[i].pc = pc /\ UNCHANGED markdown

\* One more invocation comes into flight, among at most K.  A pending write of
\* the options page's threshold setting is not counted: the page is another
\* context, and the listeners of the background script run whatever it does.
Spawn(K, q) ==
  /\ Cardinality({i \in Procs : procs[i].kind # "threshold"}) < K
  /\ procs' = Append(procs, q)
Update(i, q) == procs' = [procs EXCEPT ![i] = q]
Drop(i) == procs' = SubSeq(procs, 1, i - 1) \o SubSeq(procs, i + 1, Len(procs))

\* saveTabMetadata of invocation p has settled.
Saved(p) ==
  IF p.kind = "scan"
  THEN [p EXCEPT !.saved = TRUE, !.before = loadTabMetadata(storage), !.writes = @ + 1]
  ELSE [p EXCEPT !.saved = TRUE, !.before = loadTabMetadata(storage)]

\* The invocation ends: returned, or rejected with an error nobody catches.
Done(p) == [p EXCEPT !.pc = "done"]
Thrown(p) == [p EXCEPT !.pc = "done", !.thrown = TRUE]

\* An Initializer run ends: whether it is a second run in a row.
InitDone(p) == [p EXCEPT !.pc = "done", !.second = (p.prior # <<>> /\ quiet = p.prior)]
InitThrown(p) == [InitDone(p) EXCEPT !.thrown = TRUE]

\* ------------------------------------------------------- handleTabCreated
\* The record handleTabCreated writes into the loaded map.
handleTabCreatedBody(md, tab, now) ==
  MapSet(md, String(tab.id), NewRecord(now, tab, OrStr(tab.title, "")))

\* The browser opens a tab on one of the URLs U and dispatches onCreated(tab);
\* handleTabCreated returns at once for a non-qualifying URL, else it calls
\* loadTabMetadata.
OnCreated(K, E, U) ==
  \E url \in U :
    LET tab == [id |-> nextTabId, url |-> url, pinned |-> FALSE, title |-> ""]
    IN  /\ nextTabId <= MaxTabs
        /\ tabs' = MapSet(tabs, nextTabId, tab)
        /\ nextTabId' = nextTabId + 1
        /\ IF isSupportedHttpUrl(tab.url)
           THEN Spawn(K, Handler("created", tab.id, tab, NoChange, tab.url))
           ELSE UNCHANGED procs
        /\ Event(E)
        /\ quiet' = <<>>
        /\ UNCHANGED <<clock, storage, alarm, pendingRemoved, faults>>

\* loadTabMetadata settles: the record is written into the map and
\* saveTabMetadata is called.
HandleTabCreatedLoad(i, F) ==
  LET p == procs[i] IN
  /\ At(i, {"created"}, "load")
  /\ \E ok \in Outcomes(F) :
       /\ Fault(ok)
       /\ IF ok
          THEN LET md == loadTabMetadata(storage) IN
               Update(i, [p EXCEPT !.pc = "save", !.now = clock, !.loaded = md,
                                   !.metadata = handleTabCreatedBody(md, p.tab, clock)])
          ELSE Update(i, Thrown(p))
  /\ UNCHANGED <<clock, tabs, nextTabId, storage, alarm, pendingRemoved, events, quiet>>

\* saveTabMetadata(metadata) of a tab listener settles, and the listener returns.
HandlerSave(i, F) ==
  LET p == procs[i] IN
  /\ At(i, {"created", "updated", "activated", "removed"}, "save")
  /\ \E ok \in Outcomes(F) :
       /\ Fault(ok)
       /\ IF ok
          THEN /\ storage' = saveTabMetadata(storage, p.metadata)
               /\ Update(i, Done(Saved(p)))
          ELSE /\ UNCHANGED storage
               /\ Update(i, Thrown(p))
  /\ UNCHANGED <<clock, tabs, nextTabId, alarm, pendingRemoved, events, quiet>>

\* ------------------------------------------------------- handleTabUpdated
\* The early return of handleTabUpdated: nothing of interest changed.
handleTabUpdatedIgnores(changeInfo) ==
  changeInfo.url = "" /\ changeInfo.title = "" /\ changeInfo.status # "complete"

\* What handleTabUpdated does with the loaded map: ret is its early return.
handleTabUpdatedBody(md, tabId, changeInfo, tab, now) ==
  LET key == String(tabId) IN
  IF key \notin DOMAIN md
  THEN IF ~isSupportedHttpUrl(tab.url)
       THEN [ret |-> TRUE, metadata |-> md]
       ELSE [ret |-> FALSE,
             metadata |-> MapSet(md, key,
                NewRecord(now, tab, OrStr(tab.title, OrStr(changeInfo.title, ""))))]
  ELSE LET entry == md[key]
           e1 == IF isSupportedHttpUrl(tab.url)
                 THEN [entry EXCEPT !.currentUrl = OrStr(tab.url, entry.currentUrl)]
                 ELSE entry
           e2 == IF tab.title # "" \/ changeInfo.title # ""
                 THEN [e1 EXCEPT !.title =
                         OrStr(tab.title, OrStr(changeInfo.title, entry.title))]
                 ELSE e1
       IN  [ret |-> FALSE, metadata |-> MapSet(md, key, e2)]

\* The browser changes an open tab and dispatches onUpdated(tabId, changeInfo, tab).
Dispatch(K, E, tab, changeInfo) ==
  /\ tabs' = MapSet(tabs, tab.id, tab)
  /\ IF handleTabUpdatedIgnores(changeInfo)
     THEN UNCHANGED procs
     ELSE Spawn(K, Handler("updated", tab.id, tab, changeInfo, tab.url))
  /\ Event(E)
  /\ quiet' = <<>>
  /\ UNCHANGED <<clock, nextTabId, storage, alarm, pendingRemoved, faults>>

\* The tab navigates to another URL.
OnUpdatedUrl(K, E) ==
  \E id \in DOMAIN tabs, url \in Urls \ {""} :
    /\ url # tabs[id].url
    /\ Dispatch(K, E, [tabs[id] EXCEPT !.url = url],
                [url |-> url, title |-> "", status |-> "loading"])

\* The page's title changes.
OnUpdatedTitle(K, E) ==
  \E id \in DOMAIN tabs, title \in Titles :
    /\ title # tabs[id].title
    /\ Dispatch(K, E, [tabs[id] EXCEPT !.title = title],
                [url |-> "", title |-> title, status |-> ""])

\* The page finishes loading.
OnUpdatedComplete(K, E) ==
  \E id \in DOMAIN tabs :
    Dispatch(K, E, tabs[id], [url |-> "", title |-> "", status |-> "complete"])

\* The user pins or unpins the tab: changeInfo carries only `pinned`.
OnUpdatedPinned(K, E) ==
  \E id \in DOMAIN tabs :
    Dispatch(K, E, [tabs[id] EXCEPT !.pinned = ~@], NoChange)

HandleTabUpdatedLoad(i, F) ==
  LET p == procs[i] IN
  /\ At(i, {"updated"}, "load")
  /\ \E ok \in Outcomes(F) :
       /\ Fault(ok)
       /\ IF ok
          THEN LET md == loadTabMetadata(storage)
                   r == handleTabUpdatedBody(md, p.tabId, p.change, p.tab, clock)
                   q == [p EXCEPT !.now = clock, !.loaded = md, !.metadata = r.metadata]
               IN  Update(i, IF r.ret THEN Done(q) ELSE [q EXCEPT !.pc = "save"])
          ELSE Update(i, Thrown(p))
  /\ UNCHANGED <<clock, tabs, nextTabId, storage, alarm, pendingRemoved, events, quiet>>

\* ------------------------------------------------------- handleTabRemoved
\* The tab is closed by the user; the browser will dispatch onRemoved(tabId).
UserClosesTab(E) ==
  \E id \in DOMAIN tabs :
    /\ tabs' = MapDelete(tabs, id)
    /\ pendingRemoved' = pendingRemoved \cup {id}
    /\ Event(E)
    /\ quiet' = <<>>
    /\ UNCHANGED <<clock, nextTabId, storage, alarm, procs, faults>>

\* onRemoved(tabId) is dispatched: handleTabRemoved calls loadTabMetadata.
OnRemoved(K) ==
  \E id \in pendingRemoved :
    /\ ~Ended
    /\ pendingRemoved' = pendingRemoved \ {id}
    /\ Spawn(K, Handler("removed", id, NoTab, NoChange, ""))
    /\ quiet' = <<>>
    /\ UNCHANGED <<clock, tabs, nextTabId, storage, alarm, markdown, faults, events>>

HandleTabRemovedLoad(i, F) ==
  LET p == procs[i] IN
  /\ At(i, {"removed"}, "load")
  /\ \E ok \in Outcomes(F) :
       /\ Fault(ok)
       /\ IF ok
          THEN LET md == loadTabMetadata(storage)
                   key == String(p.tabId)
                   q == [p EXCEPT !.now = clock, !.loaded = md, !.metadata = md]
               IN  Update(i, IF key \in DOMAIN md
                             THEN [q EXCEPT !.pc = "save", !.metadata = MapDelete(md, key)]
                             ELSE Done(q))
          ELSE Update(i, Thrown(p))
  /\ UNCHANGED <<clock, tabs, nextTabId, storage, alarm, pendingRemoved, events, quiet>>

\* ------------------------------------------------------------ onActivated
\* The user focuses an open tab; the browser dispatches onActivated.
OnActivated(K, E) ==
  \E id \in DOMAIN tabs :
    /\ Spawn(K, Handler("activated", id, NoTab, NoChange, tabs[id].url))
    /\ Event(E)
    /\ quiet' = <<>>
    /\ UNCHANGED <<clock, tabs, nextTabId, storage, alarm, pendingRemoved, faults>>

\* A variant that writes the other timestamp.
onActivatedBumpOpenedAt(md, key, now) == [md EXCEPT ![key].openedAt = now]

\* metadata[key].lastActiveAt = now
onActivatedBump(md, key, now) == [md EXCEPT ![key].lastActiveAt = now]

\* loadTabMetadata settles: a known tab gets lastActiveAt = now, an unknown
\* one is fetched with chrome.tabs.get.
OnActivatedLoad(i, F) ==
  LET p == procs[i] IN
  /\ At(i, {"activated"}, "load")
  /\ \E ok \in Outcomes(F) :
       /\ Fault(ok)
       /\ IF ok
          THEN LET md == loadTabMetadata(storage)
                   key == String(p.tabId)
                   q == [p EXCEPT !.now = clock, !.loaded = md, !.metadata = md]
               IN  Update(i, IF key \notin DOMAIN md
                             THEN [q EXCEPT !.pc = "get"]
                             ELSE [q EXCEPT !.pc = "save",
                                            !.metadata = onActivatedBump(md, key, clock)])
          ELSE Update(i, Thrown(p))
  /\ UNCHANGED <<clock, tabs, nextTabId, storage, alarm, pendingRemoved, events, quiet>>

\* chrome.tabs.get settles: it rejects when the tab is gone (caught: return).
OnActivatedGet(i) ==
  LET p == procs[i] IN
  /\ At(i, {"activated"}, "get")
  /\ IF p.tabId \notin DOMAIN tabs
     THEN Update(i, Done(p))
     ELSE LET tab == tabs[p.tabId] IN
          IF ~isSupportedHttpUrl(tab.url)
          THEN Update(i, Done([p EXCEPT !.tab = tab]))
          ELSE Update(i, [p EXCEPT !.pc = "save", !.tab = tab,
                            !.metadata = MapSet(p.metadata, String(p.tabId),
                                            NewRecord(p.now, tab, OrStr(tab.title, "")))])
  /\ UNCHANGED <<clock, tabs, nextTabId, storage, alarm, pendingRemoved, faults, events, quiet>>

\* ------------------------------------------------------------ Initializer
\* The loop of initialiseExistingTabs over tabs[k..]: a record for every
\* qualifying tab that has none.
\* A variant without the test for an existing record.
RECURSIVE initialiseExistingTabsLoopOverwrites(_, _, _, _)
initialiseExistingTabsLoopOverwrites(tabList, k, md, now) ==
  IF k > Len(tabList) THEN md
  ELSE LET tab == tabList[k] IN
       IF ~isSupportedHttpUrl(tab.url)
       THEN initialiseExistingTabsLoopOverwrites(tabList, k + 1, md, now)
       ELSE initialiseExistingTabsLoopOverwrites(tabList, k + 1,
              MapSet(md, String(tab.id), NewRecord(now, tab, OrStr(tab.title, ""))), now)

RECURSIVE initialiseExistingTabsLoop(_, _, _, _)
initialiseExistingTabsLoop(tabList, k, md, now) ==
  IF k > Len(tabList) THEN md
  ELSE LET tab == tabList[k]
           key == String(tab.id)
       IN  IF ~isSupportedHttpUrl(tab.url)
           THEN initialiseExistingTabsLoop(tabList, k + 1, md, now)
           ELSE IF key \notin DOMAIN md
           THEN initialiseExistingTabsLoop(tabList, k + 1,
                  MapSet(md, key, NewRecord(now, tab, OrStr(tab.title, ""))), now)
           ELSE initialiseExistingTabsLoop(tabList, k + 1, md, now)

\* The browser starts: onStartup runs ensureAlarm, which calls chrome.alarms.get.
\* (onInstalled is dispatched once, when the extension is loaded: see Init.)
OnStartup(K, E) ==
  /\ Spawn(K, Initializer("startup"))
  /\ Event(E)
  /\ UNCHANGED <<clock, tabs, nextTabId, storage, alarm, pendingRemoved, faults, quiet>>

\* chrome.alarms.get settles: create the alarm if there is none, else go on
\* to initialiseExistingTabs, which queries the tabs and loads the metadata.
EnsureAlarmGet(i) ==
  LET p == procs[i] IN
  /\ At(i, {"init"}, "alarmget")
  /\ Update(i, [p EXCEPT !.pc = IF ~alarm THEN "alarmcreate" ELSE "snapshot"])
  /\ UNCHANGED <<clock, tabs, nextTabId, storage, alarm, pendingRemoved, faults, events, quiet>>

\* chrome.alarms.create settles.
EnsureAlarmCreate(i) ==
  LET p == procs[i] IN
  /\ At(i, {"init"}, "alarmcreate")
  /\ alarm' = TRUE
  /\ Update(i, [p EXCEPT !.pc = "snapshot"])
  /\ UNCHANGED <<clock, tabs, nextTabId, storage, pendingRemoved, faults, events, quiet>>

\* Both calls of Promise.all([tabs.query, loadTabMetadata]) have settled, the
\* tab list and the map each as of its own moment: now = Date.now(), the loop
\* runs, and saveTabMetadata is called if it inserted anything.  A run that
\* inserted nothing ends here and leaves the store as it is now, which is not
\* the map it loaded when another listener has saved since.
InitialiseExistingTabsBody(i, p) ==
  LET md2 == initialiseExistingTabsLoop(p.tabsSnap, 1, p.loaded, clock)
      q == [p EXCEPT !.now = clock, !.metadata = md2, !.changed = (md2 # p.loaded)]
  IN  IF q.changed
      THEN Update(i, [q EXCEPT !.pc = "save"]) /\ UNCHANGED quiet
      ELSE Update(i, InitDone(q)) /\ quiet' = <<loadTabMetadata(storage)>>

\* chrome.tabs.query({}) of the Promise.all settles, before or after
\* loadTabMetadata ("snapshot": both pending; "query": only this one).
InitialiseExistingTabsQuery(i) ==
  LET p == procs[i] IN
  /\ At(i, {"init"}, p.pc)
  /\ p.pc \in {"snapshot", "query"}
  /\ \E tabList \in TabsQuery(tabs) :
       LET q == [p EXCEPT !.tabsSnap = tabList] IN
       IF p.pc = "snapshot"
       THEN Update(i, [q EXCEPT !.pc = "get"]) /\ UNCHANGED quiet
       ELSE InitialiseExistingTabsBody(i, q)
  /\ UNCHANGED <<clock, tabs, nextTabId, storage, alarm, pendingRemoved, faults, events>>

\* loadTabMetadata of the Promise.all settles, before or after tabs.query
\* ("snapshot": both pending; "get": only this one).  A rejection rejects the
\* Promise.all at once.
InitialiseExistingTabsGet(i, F) ==
  LET p == procs[i] IN
  /\ At(i, {"init"}, p.pc)
  /\ p.pc \in {"snapshot", "get"}
  /\ \E ok \in Outcomes(F) :
       /\ Fault(ok)
       /\ IF ok
          THEN LET q == [p EXCEPT !.loaded = loadTabMetadata(storage)] IN
               IF p.pc = "snapshot"
               THEN Update(i, [q EXCEPT !.pc = "query", !.metadata = q.loaded])
                    /\ UNCHANGED quiet
               ELSE InitialiseExistingTabsBody(i, q)
          ELSE Update(i, InitThrown(p)) /\ UNCHANGED quiet
  /\ UNCHANGED <<clock, tabs, nextTabId, storage, alarm, pendingRemoved, events>>

\* saveTabMetadata(metadata) of initialiseExistingTabs settles.
InitialiseExistingTabsSave(i, F) ==
  LET p == procs[i] IN
  /\ At(i, {"init"}, "save")
  /\ \E ok \in Outcomes(F) :
       /\ Fault(ok)
       /\ IF ok
          THEN /\ storage' = saveTabMetadata(storage, p.metadata)
               /\ Update(i, InitDone(Saved(p)))
               /\ quiet' = <<p.metadata>>
          ELSE /\ UNCHANGED <<storage, quiet>>
               /\ Update(i, InitThrown(p))
  /\ UNCHANGED <<clock, tabs, nextTabId, alarm, pendingRemoved, events>>

\* ------------------------------------------------------ checkForStaleTabs
\* now - (entry.lastActiveAt || entry.openedAt || now)
inactiveDuration(entry, now) ==
  now - OrNum(entry.lastActiveAt, OrNum(entry.openedAt, now))

\* A variant that is off by one millisecond.
IsStaleEarly(entry, now) == inactiveDuration(entry, now) >= STALE_THRESHOLD_MS - 1

\* inactiveDuration >= STALE_THRESHOLD_MS
IsStale(entry, now) == inactiveDuration(entry, now) >= STALE_THRESHOLD_MS

\* The closedItem closeAndLogTab builds from the record, at time t.
ClosedItem(metaEntry, t) ==
  [openedAt |-> metaEntry.openedAt, closedAt |-> t,
   url |-> OrStr(metaEntry.currentUrl, metaEntry.firstUrl),
   title |-> OrStr(metaEntry.title, OrStr(metaEntry.currentUrl, metaEntry.firstUrl))]

\* A variant without the two skips.
ScanSkipsNone(tab) == FALSE

\* Whether the scan's loop skips the tab (pinned, or not an http/https page).
ScanSkips(tab) == tab.pinned \/ ~isSupportedHttpUrl(tab.url)

\* A variant without the test for a record.
closeAndLogTabUnguarded(p, tab, metaEntry, t) ==
  [p EXCEPT !.pc = "remove",
            !.cur = [NoPipe EXCEPT !.tabId = tab.id,
                                   !.item = IF metaEntry = <<>> THEN NoItem
                                            ELSE ClosedItem(metaEntry[1], t)]]

\* closeAndLogTab(tab, metaEntry) called by invocation p at time t, up to its
\* first await: without a record it returns at once; else it builds
\* closedItem and calls chrome.tabs.remove.
closeAndLogTab(p, tab, metaEntry, t) ==
  IF metaEntry = <<>> THEN [p EXCEPT !.pc = "returned"]
  ELSE [p EXCEPT !.pc = "remove",
                 !.cur = [NoPipe EXCEPT !.tabId = tab.id,
                                        !.item = ClosedItem(metaEntry[1], t)]]

\* The loop of checkForStaleTabs from tab p.i on, run at time t until
\* closeAndLogTab calls chrome.tabs.remove, or until it leaves the loop and
\* calls saveTabMetadata.
RECURSIVE checkForStaleTabsLoop(_, _)
checkForStaleTabsLoop(p, t) ==
  IF p.i > Len(p.tabsSnap) THEN [p EXCEPT !.pc = "save"]
  ELSE LET tab == p.tabsSnap[p.i]
           key == String(tab.id)
       IN  IF ScanSkips(tab)
           THEN checkForStaleTabsLoop([p EXCEPT !.i = @ + 1], t)
           ELSE LET md == IF key \notin DOMAIN p.metadata
                          THEN MapSet(p.metadata, key,
                                      NewRecord(p.now, tab, OrStr(tab.title, "")))
                          ELSE p.metadata
                    entry == md[key]
                    q == closeAndLogTab([p EXCEPT !.metadata = md], tab, <<entry>>, t)
                IN  IF ~IsStale(entry, p.now)
                    THEN checkForStaleTabsLoop([p EXCEPT !.metadata = md, !.i = @ + 1], t)
                    ELSE IF q.pc = "remove" THEN q
                    ELSE checkForStaleTabsLoop(
                           [p EXCEPT !.metadata = MapDelete(md, key), !.i = @ + 1], t)

\* History: if this step has called closeAndLogTab, the clock of the step.
Called(p) == IF p.pc = "remove" THEN [p EXCEPT !.cur.calledAt = clock] ELSE p

\* The value under INACTIVITY_THRESHOLD_KEY, if any.
PersistedThreshold ==
  IF INACTIVITY_THRESHOLD_KEY \in DOMAIN storage
  THEN <<storage[INACTIVITY_THRESHOLD_KEY]>> ELSE <<>>

\* The alarm fires: the onAlarm listener calls checkForStaleTabs, which
\* queries the tabs and loads the metadata.
OnAlarm(K, E) ==
  /\ alarm
  /\ Spawn(K, Scan)
  /\ Event(E)
  /\ UNCHANGED <<clock, tabs, nextTabId, storage, alarm, pendingRemoved, faults, quiet>>

\* Both calls of Promise.all([tabs.query, loadTabMetadata]) have settled, the
\* tab list and the map each as of its own moment: now = Date.now() and the
\* sweep starts at the first tab.
checkForStaleTabsBody(p) ==
  Called(checkForStaleTabsLoop([p EXCEPT !.now = clock, !.metadata = p.loaded, !.i = 1,
                                         !.hours = PersistedThreshold], clock))

\* chrome.tabs.query({}) of the Promise.all settles, before or after
\* loadTabMetadata ("snapshot": both pending; "query": only this one).
CheckForStaleTabsQuery(i) ==
  LET p == procs[i] IN
  /\ At(i, {"scan"}, p.pc)
  /\ p.pc \in {"snapshot", "query"}
  /\ \E tabList \in TabsQuery(tabs) :
       LET q == [p EXCEPT !.tabsSnap = tabList, !.reads = @ + 1] IN
       Update(i, IF p.pc = "snapshot" THEN [q EXCEPT !.pc = "get"]
                 ELSE checkForStaleTabsBody(q))
  /\ UNCHANGED <<clock, tabs, nextTabId, storage, alarm, pendingRemoved, faults, events,
                 quiet>>

\* loadTabMetadata of the Promise.all settles, before or after tabs.query
\* ("snapshot": both pending; "get": only this one).  A rejection rejects the
\* Promise.all at once.
CheckForStaleTabsGet(i, F) ==
  LET p == procs[i] IN
  /\ At(i, {"scan"}, p.pc)
  /\ p.pc \in {"snapshot", "get"}
  /\ \E ok \in Outcomes(F) :
       /\ Fault(ok)
       /\ IF ok
          THEN LET q == [p EXCEPT !.loaded = loadTabMetadata(storage), !.reads = @ + 1] IN
               Update(i, IF p.pc = "snapshot"
                         THEN [q EXCEPT !.pc = "query", !.metadata = q.loaded]
                         ELSE checkForStaleTabsBody(q))
          ELSE Update(i, Thrown(p))
  /\ UNCHANGED <<clock, tabs, nextTabId, storage, alarm, pendingRemoved, events, quiet>>

\* saveTabMetadata(metadata) after the loop settles.
CheckForStaleTabsSave(i, F) ==
  LET p == procs[i] IN
  /\ At(i, {"scan"}, "save")
  /\ \E ok \in Outcomes(F) :
       /\ Fault(ok)
       /\ IF ok
          THEN /\ storage' = saveTabMetadata(storage, p.metadata)
               /\ Update(i, Done(Saved(p)))
          ELSE /\ UNCHANGED storage
               /\ Update(i, Thrown(p))
  /\ UNCHANGED <<clock, tabs, nextTabId, alarm, pendingRemoved, events, quiet>>

\* --------------------------------------------------------- closeAndLogTab
Tried(p, step) == [p EXCEPT !.cur.tried = @ \cup {step}]
Failed(p, step) == [p EXCEPT !.cur.tried = @ \cup {step}, !.cur.failed = @ \cup {step}]

\* closeAndLogTab rejects: checkForStaleTabs, which awaits it, rejects too.
PipelineThrows(p) == Thrown([p EXCEPT !.pipes = Append(@, p.cur)])

\* A variant without the try/catch around chrome.tabs.remove.
tabsRemoveUncaught(p) == PipelineThrows(Failed(p, "close"))

\* catch (e) { /* Tab might already be gone. */ }: closeAndLogTab goes on.
tabsRemoveCaught(p) == [Failed(p, "close") EXCEPT !.pc = "qload"]

\* chrome.tabs.remove(tab.id) settles: the tab is closed (the browser will
\* dispatch onRemoved), or the call rejects because the tab is gone, which
\* is caught.  Then loadClosedItems is called.
CloseAndLogTabRemove(i) ==
  LET p == procs[i]
      id == p.cur.tabId
  IN  /\ At(i, {"scan", "call"}, "remove")
      /\ IF id \in DOMAIN tabs
         THEN /\ tabs' = MapDelete(tabs, id)
              /\ pendingRemoved' = pendingRemoved \cup {id}
              /\ quiet' = <<>>
              /\ Update(i, [Tried(p, "close") EXCEPT !.pc = "qload"])
         ELSE /\ UNCHANGED <<tabs, pendingRemoved, quiet>>
              /\ Update(i, tabsRemoveCaught(p))
      /\ UNCHANGED <<clock, nextTabId, storage, alarm, faults, events>>

\* loadClosedItems settles; items.push(closedItem); saveClosedItems is called.
CloseAndLogTabLoadItems(i, F) ==
  LET p == procs[i] IN
  /\ At(i, {"scan", "call"}, "qload")
  /\ \E ok \in Outcomes(F) :
       /\ Fault(ok)
       /\ IF ok
          THEN Update(i, [Tried(p, "append") EXCEPT !.pc = "qsave",
                            !.items = Append(loadClosedItems(storage), p.cur.item)])
          ELSE Update(i, PipelineThrows(Failed(p, "append")))
  /\ UNCHANGED <<clock, tabs, nextTabId, storage, alarm, pendingRemoved, events, quiet>>

\* saveClosedItems(items) settles; fetch(...) is called.
CloseAndLogTabSaveItems(i, F) ==
  LET p == procs[i] IN
  /\ At(i, {"scan", "call"}, "qsave")
  /\ \E ok \in Outcomes(F) :
       /\ Fault(ok)
       /\ IF ok
          THEN /\ storage' = saveClosedItems(storage, p.items)
               /\ Update(i, [p EXCEPT !.pc = "fetch"])
          ELSE /\ UNCHANGED storage
               /\ Update(i, PipelineThrows(Failed(p, "append")))
  /\ UNCHANGED <<clock, tabs, nextTabId, alarm, pendingRemoved, events, quiet>>

\* A variant that takes a fresh copy of the store after each eviction.
deleteEvictedRereads(p) ==
  [p EXCEPT !.metadata = MapDelete(loadTabMetadata(storage), String(p.cur.tabId)),
            !.reads = @ + 1]

\* delete metadata[key], after closeAndLogTab has returned.
deleteEvicted(p) == [p EXCEPT !.metadata = MapDelete(@, String(p.cur.tabId))]

\* fetch settles (a rejection is caught); chrome.runtime.sendMessage is
\* called (its rejection is caught) and closeAndLogTab returns;
\* checkForStaleTabs, when it made the call, deletes the record and goes on
\* with the next tab.
CloseAndLogTabFetch(i) ==
  LET p == procs[i] IN
  /\ At(i, {"scan", "call"}, "fetch")
  /\ \E ok \in BOOLEAN :
       LET q == Tried(IF ok THEN Tried(p, "push") ELSE Failed(p, "push"), "broadcast")
           r == [q EXCEPT !.pipes = Append(@, q.cur), !.cur = NoPipe, !.items = <<>>]
       IN  Update(i, IF p.kind = "call" THEN Done(r)
                     ELSE Called(checkForStaleTabsLoop(
                                   [deleteEvicted(q) EXCEPT !.i = @ + 1,
                                                            !.pipes = Append(@, q.cur),
                                                            !.cur = NoPipe,
                                                            !.items = <<>>], clock)))
  /\ UNCHANGED <<clock, tabs, nextTabId, storage, alarm, pendingRemoved, faults, events, quiet>>

\* ------------------------------------------------------------ environment
\* The listener's promise has settled: the invocation is over.
Return(i) ==
  /\ procs[i].pc = "done"
  /\ Drop(i)
  /\ UNCHANGED <<clock, tabs, nextTabId, storage, alarm, pendingRemoved, markdown,
                 faults, events, quiet>>

\* Time passes: Date.now() moves to a later value of T.
Tick(T) ==
  /\ ~Ended
  /\ \E t \in T : t > clock /\ clock' = t
  /\ UNCHANGED <<tabs, nextTabId, storage, alarm, pendingRemoved, procs, markdown,
                 faults, events, quiet>>

\* The extension is loaded into a browser that may already show a tab with
\* one of the URLs U; the browser dispatches onInstalled.
Installed(U) ==
  /\ clock = 0
  /\ \E open \in BOOLEAN, url \in U :
       /\ tabs = IF open
                 THEN MapSet(EmptyMap, 1, [id |-> 1, url |-> url, pinned |-> FALSE, title |-> "T"])
                 ELSE EmptyMap
       /\ nextTabId = IF open THEN 2 ELSE 1
  /\ storage = EmptyMap
  /\ alarm = FALSE
  /\ pendingRemoved = {}
  /\ quiet = <<>>
  /\ procs = <<Initializer("installed")>>
  /\ markdown = <<>>
  /\ faults = 0
  /\ events = 0

Init == Installed(Urls)

Step(K, F, E) ==
  \/ OnCreated(K, E, Urls)
  \/ OnUpdatedUrl(K, E)
  \/ OnUpdatedTitle(K, E)
  \/ OnUpdatedComplete(K, E)
  \/ OnUpdatedPinned(K, E)
  \/ UserClosesTab(E)
  \/ OnRemoved(K)
  \/ OnActivated(K, E)
  \/ OnStartup(K, E)
  \/ OnAlarm(K, E)
  \/ Tick(Times)
  \/ \E i \in Procs : HandleTabCreatedLoad(i, F)
  \/ \E i \in Procs : HandleTabUpdatedLoad(i, F)
  \/ \E i \in Procs : HandleTabRemovedLoad(i, F)
  \/ \E i \in Procs : OnActivatedLoad(i, F)
  \/ \E i \in Procs : OnActivatedGet(i)
  \/ \E i \in Procs : HandlerSave(i, F)
  \/ \E i \in Procs : EnsureAlarmGet(i)
  \/ \E i \in Procs : EnsureAlarmCreate(i)
  \/ \E i \in Procs : InitialiseExistingTabsQuery(i)
  \/ \E i \in Procs : InitialiseExistingTabsGet(i, F)
  \/ \E i \in Procs : InitialiseExistingTabsSave(i, F)
  \/ \E i \in Procs : CheckForStaleTabsQuery(i)
  \/ \E i \in Procs : CheckForStaleTabsGet(i, F)
  \/ \E i \in Procs : CloseAndLogTabRemove(i)
  \/ \E i \in Procs : CloseAndLogTabLoadItems(i, F)
  \/ \E i \in Procs : CloseAndLogTabSaveItems(i, F)
  \/ \E i \in Procs : CloseAndLogTabFetch(i)
  \/ \E i \in Procs : CheckForStaleTabsSave(i, F)
  \/ \E i \in Procs : Return(i)

\* The listeners run one at a time: an event is dispatched when the
\* invocation before it has ended.  chrome.storage calls may reject.
Next == Step(1, MaxFaults, MaxEvents)
Spec == Init /\ [][Next]_vars

\* ----------------------------------------------------------- options page
\* The values of the inactivity-threshold select, and Number(value).
SelectValues == {"1", "0", "abc"}
Number(value) ==
  CASE value = "1" -> [nan |-> FALSE, num |-> 1]
    [] value = "0" -> [nan |-> FALSE, num |-> 0]
    [] OTHER       -> [nan |-> TRUE, num |-> 0]

\* !hours || hours <= 0
saveInactivityThresholdRejects(hours) == hours.nan \/ hours.num = 0 \/ hours.num <= 0

\* A call of saveInactivityThreshold that has called chrome.storage.local.set.
ThresholdSave(hours) ==
  [kind |-> "threshold", pc |-> "set", hours |-> hours, failed |-> FALSE,
   thrown |-> FALSE]

\* The user picks a value in the options page (change event):
\* saveInactivityThreshold returns at once for an invalid number of hours,
\* else it calls chrome.storage.local.set; one such write is pending at a
\* time.
SaveInactivityThreshold(E) ==
  \E value \in SelectValues :
    LET hours == Number(value) IN
    /\ Event(E)
    /\ \A i \in Procs : procs[i].kind # "threshold"
    /\ procs' = IF saveInactivityThresholdRejects(hours) THEN procs
                ELSE Append(procs, ThresholdSave(hours.num))
    /\ UNCHANGED <<clock, tabs, nextTabId, storage, alarm, pendingRemoved, faults, quiet>>

\* chrome.storage.local.set({ [INACTIVITY_THRESHOLD_KEY]: hours }) settles:
\* the hours are stored, or the call rejects, which is caught.
SaveInactivityThresholdSet(i, F) ==
  LET p == procs[i] IN
  /\ At(i, {"threshold"}, "set")
  /\ \E ok \in Outcomes(F) :
       /\ Fault(ok)
       /\ IF ok
          THEN /\ storage' = MapSet(storage, INACTIVITY_THRESHOLD_KEY, p.hours)
               /\ Update(i, Done(p))
          ELSE /\ UNCHANGED storage
               /\ Update(i, Done([p EXCEPT !.failed = TRUE]))
  /\ UNCHANGED <<clock, tabs, nextTabId, alarm, pendingRemoved, events, quiet>>

\* The background listeners, one at a time, and the options page, whose
\* write may reject.
NextOptions ==
  \/ Step(1, 0, MaxEvents)
  \/ SaveInactivityThreshold(MaxEvents)
  \/ \E i \in Procs : SaveInactivityThresholdSet(i, MaxFaults)

SpecOptions == Init /\ [][NextOptions]_vars

\* ------------------------------------------------- options page: markdown
\* Texts are sequences of characters here, so that escaping can be looked at.
Chars == {"[", "]", "\\", "a"}
Texts == UNION {[1..n -> Chars] : n \in 0..MaxLen}

\* text.replace(/c/g, "\\" + c) for a character c, from position k on.
RECURSIVE ReplaceAll(_, _, _)
ReplaceAll(text, c, k) ==
  IF k > Len(text) THEN <<>>
  ELSE (IF text[k] = c THEN <<"\\", c>> ELSE <<text[k]>>) \o ReplaceAll(text, c, k + 1)

\* (text || "").replace(/\[/g, "\\[").replace(/\]/g, "\\]")
escapeMarkdownLinkText(text) == ReplaceAll(ReplaceAll(text, "[", 1), "]", 1)

Untitled == <<"U", "n", "t", "i", "t", "l", "e", "d">>
OrText(a, b) == IF a # <<>> THEN a ELSE b

\* `- [ ] [${title}](${url})  ` for one item.
LinkLine(item) ==
  <<"-", " ", "[", " ", "]", " ", "[">>
    \o escapeMarkdownLinkText(OrText(item.title, OrText(item.url, Untitled)))
    \o <<"]", "(">> \o item.url \o <<")", " ", " ">>

\* new Date(dateMs).toISOString().slice(0, 10): the UTC day of dateMs, for
\* the first nine days of 1970.
formatDateISO(dateMs) ==
  <<"1", "9", "7", "0", "-", "0", "1", "-", "0", Digits[(dateMs \div (24 * HOUR_MS)) + 2]>>

\* groupByDate(items), from item k on: a Map from day to items, kept as the
\* sequence of its entries in the order of insertion.  An item without
\* closedAt is filed under the day of Date.now().
RECURSIVE groupByDate(_, _, _, _)
groupByDate(items, k, map, now) ==
  IF k > Len(items) THEN map
  ELSE LET item == items[k]
           day == formatDateISO(OrNum(item.closedAt, now))
       IN  groupByDate(items, k + 1,
             IF \E g \in DOMAIN map : map[g].day = day
             THEN [g \in DOMAIN map |->
                     IF map[g].day = day
                     THEN [map[g] EXCEPT !.dayItems = Append(@, item)]
                     ELSE map[g]]
             ELSE Append(map, [day |-> day, dayItems |-> <<item>>]),
             now)

\* The lines pushed to `sections` for the entries of grouped from g on: the
\* heading of the day, then the link line of each of its items (the empty
\* lines and the "Closed at" lines, which show the local time, are left out).
RECURSIVE sections(_, _)
sections(grouped, g) ==
  IF g > Len(grouped) THEN <<>>
  ELSE <<(<<"#", "#", " ">> \o grouped[g].day)>>
         \o [k \in DOMAIN grouped[g].dayItems |-> LinkLine(grouped[g].dayItems[k])]
         \o sections(grouped, g + 1)

\* buildMarkdownFromItems(items) at time now: the lines it joins.
buildMarkdownFromItems(items, now) ==
  IF Len(items) = 0 THEN <<>> ELSE sections(groupByDate(items, 1, <<>>, now), 1)

\* A call of generateMarkdownFromQueue in the options page.
Generation ==
  [kind |-> "generate", pc |-> "get", now |-> 0, items |-> <<>>,
   failed |-> FALSE, thrown |-> FALSE]

\* The user clicks "generate": generateMarkdownFromQueue calls
\* chrome.storage.local.get.
GenerateMarkdownFromQueue(K) ==
  /\ ~Ended
  /\ Spawn(K, Generation)
  /\ UNCHANGED <<clock, tabs, nextTabId, storage, alarm, pendingRemoved, markdown,
                 faults, events, quiet>>

\* chrome.storage.local.get settles: markdownOutputEl.value becomes the
\* markdown of the queue as it is now ("" for an empty queue); a rejection is
\* caught and leaves the textarea as it is.
GenerateMarkdownFromQueueGet(i, F) ==
  LET p == procs[i] IN
  /\ ~Ended
  /\ p.kind = "generate"
  /\ p.pc = "get"
  /\ \E ok \in Outcomes(F) :
       /\ Fault(ok)
       /\ IF ok
          THEN LET items == loadClosedItems(storage) IN
               /\ markdown' = buildMarkdownFromItems(items, clock)
               /\ Update(i, Done([p EXCEPT !.now = clock, !.items = items]))
          ELSE /\ UNCHANGED markdown
               /\ Update(i, Done([p EXCEPT !.failed = TRUE]))
  /\ UNCHANGED <<clock, tabs, nextTabId, storage, alarm, pendingRemoved, events, quiet>>

\* The queues the options page is opened over: one item with any title, then
\* up to MaxQueue - 1 more, each closed on a day of its own choice.
ClosedAts == Instants \ {STALE_THRESHOLD_MS}
QueueItem(k, title, url, closedAt) ==
  [openedAt |-> 0, closedAt |-> closedAt,
   url |-> IF k = 1 THEN url ELSE <<"v">>,
   title |-> IF k = 1 THEN title ELSE [j \in 1..k |-> "a"]]

\* A scan of the background script that has closed tab 1 at the last instant
\* and is about to load the queue and append the tab's item to it.
SuspendedScan ==
  LET entry == [openedAt |-> 1, lastActiveAt |-> 1, firstUrl |-> <<"w">>,
                currentUrl |-> <<"w">>, title |-> <<"]">>]
      map == MapSet(EmptyMap, "1", entry)
  IN  [Scan EXCEPT !.pc = "qload", !.now = STALE_THRESHOLD_MS + 1, !.i = 1, !.reads = 2,
                   !.tabsSnap = <<[id |-> 1, url |-> <<"w">>, pinned |-> FALSE,
                                   title |-> <<"]">>]>>,
                   !.loaded = map, !.metadata = map,
                   !.cur = [tabId |-> 1,
                            item |-> [openedAt |-> 1, closedAt |-> STALE_THRESHOLD_MS + 1,
                                      url |-> <<"w">>, title |-> <<"]">>],
                            tried |-> {"close"}, failed |-> {},
                            calledAt |-> STALE_THRESHOLD_MS + 1]]

\* The options page is open over a queue of closed items, none closed later
\* than now; the background script is idle, or in the middle of a scan.
InitMarkdown ==
  /\ clock \in {1, STALE_THRESHOLD_MS + 1}
  /\ tabs = EmptyMap /\ nextTabId = 2 /\ alarm = TRUE
  /\ pendingRemoved = {} /\ faults = 0 /\ events = 0 /\ quiet = <<>>
  /\ markdown = <<>>
  /\ procs \in {<<>>} \cup (IF clock = STALE_THRESHOLD_MS + 1 THEN {<<SuspendedScan>>} ELSE {})
  /\ \E title \in Texts, url \in {<<>>, <<"u">>}, n \in 1..MaxQueue :
       \E closedAt \in [1..n -> {t \in ClosedAts : t <= clock}] :
         storage = saveClosedItems(EmptyMap,
                     [k \in 1..n |-> QueueItem(k, title, url, closedAt[k])])

\* The options page, the clock, and the rest of the suspended scan.
NextMarkdown ==
  \/ GenerateMarkdownFromQueue(MaxInflight)
  \/ \E i \in Procs : GenerateMarkdownFromQueueGet(i, MaxFaults)
  \/ \E i \in Procs : CloseAndLogTabLoadItems(i, 0)
  \/ \E i \in Procs : CloseAndLogTabSaveItems(i, 0)
  \/ \E i \in Procs : CloseAndLogTabFetch(i)
  \/ \E i \in Procs : CheckForStaleTabsSave(i, 0)
  \/ \E i \in Procs : Return(i)
  \/ Tick(Instants)

SpecMarkdown == InitMarkdown /\ [][NextMarkdown]_vars

\* The URLs of the tabs when listeners interleave: one that qualifies and one
\* that does not.
ConcUrls == {"http://x", "chrome://z"}

\* The listeners interleave at their awaits: up to K invocations in flight.
ConcStep(K, E) ==
  \/ OnCreated(K, E, ConcUrls)
  \/ UserClosesTab(E)
  \/ OnRemoved(K)
  \/ OnActivated(K, E)
  \/ OnUpdatedComplete(K, E)
  \/ OnAlarm(K, E)
  \/ Tick(Instants)
  \/ \E i \in Procs : HandleTabCreatedLoad(i, 0)
  \/ \E i \in Procs : HandleTabUpdatedLoad(i, 0)
  \/ \E i \in Procs : HandleTabRemovedLoad(i, 0)
  \/ \E i \in Procs : OnActivatedLoad(i, 0)
  \/ \E i \in Procs : OnActivatedGet(i)
  \/ \E i \in Procs : HandlerSave(i, 0)
  \/ \E i \in Procs : EnsureAlarmGet(i)
  \/ \E i \in Procs : EnsureAlarmCreate(i)
  \/ \E i \in Procs : InitialiseExistingTabsQuery(i)
  \/ \E i \in Procs : InitialiseExistingTabsGet(i, 0)
  \/ \E i \in Procs : InitialiseExistingTabsSave(i, 0)
  \/ \E i \in Procs : CheckForStaleTabsQuery(i)
  \/ \E i \in Procs : CheckForStaleTabsGet(i, 0)
  \/ \E i \in Procs : CloseAndLogTabRemove(i)
  \/ \E i \in Procs : CloseAndLogTabLoadItems(i, 0)
  \/ \E i \in Procs : CloseAndLogTabSaveItems(i, 0)
  \/ \E i \in Procs : CloseAndLogTabFetch(i)
  \/ \E i \in Procs : CheckForStaleTabsSave(i, 0)
  \/ \E i \in Procs : Return(i)

InitConc == Installed({"http://x"})
NextConc == ConcStep(MaxInflight, MaxEvents)
SpecConc == InitConc /\ [][NextConc]_vars

\* ------------------------------------------------ closeAndLogTab on its own
\* The records closeAndLogTab is called with: with and without a title, with
\* and without a currentUrl.
CallEntries ==
  {[openedAt |-> 1, lastActiveAt |-> 1, firstUrl |-> "https://y",
    currentUrl |-> currentUrl, title |-> title] :
     currentUrl \in {"", "http://x"}, title \in Titles}

\* Date.now() when closeAndLogTab is called on its own or by a scan that has
\* been under way for a while.
CallInstants == Instants \cup {STALE_THRESHOLD_MS + 2}

\* closeAndLogTab(tab, metaEntry) is called for the last tab, which is open
\* or gone, with a record or without one.
CloseAndLogTabCall(K, E) ==
  \E metaEntry \in {<<>>} \cup {<<entry>> : entry \in CallEntries} :
    LET id == MaxTabs
        tab == IF id \in DOMAIN tabs THEN tabs[id] ELSE [NoTab EXCEPT !.id = id]
        q == Called(closeAndLogTab(Call(tab, metaEntry), tab, metaEntry, clock))
    IN  /\ Spawn(K, IF q.pc = "returned" THEN Done(q) ELSE q)
        /\ Event(E)
        /\ UNCHANGED <<clock, tabs, nextTabId, storage, alarm, pendingRemoved, faults, quiet>>

\* The extension has been running for a millisecond: the alarm is set and
\* two tabs are open at http://x, each with its record, opened at 0 and
\* focused at 1.
InitCall ==
  /\ clock = 1
  /\ \E title \in Titles :
       /\ tabs = [id \in TabIds |->
                   [id |-> id, url |-> "http://x", pinned |-> FALSE, title |-> title]]
       /\ storage = saveTabMetadata(EmptyMap,
                       [key \in {String(id) : id \in TabIds} |->
                          [openedAt |-> 0, lastActiveAt |-> 1, firstUrl |-> "http://x",
                           currentUrl |-> "http://x", title |-> title]])
  /\ nextTabId = MaxTabs + 1
  /\ alarm = TRUE
  /\ pendingRemoved = {}
  /\ quiet = <<>>
  /\ procs = <<>>
  /\ markdown = <<>>
  /\ faults = 0
  /\ events = 0

\* Scans, calls of closeAndLogTab on its own, the removals they cause and
\* the clock, one invocation at a time; chrome.storage calls may reject.
NextCall ==
  \/ CloseAndLogTabCall(1, MaxEvents)
  \/ OnAlarm(1, MaxEvents)
  \/ OnRemoved(1)
  \/ Tick(CallInstants)
  \/ \E i \in Procs : HandleTabRemovedLoad(i, MaxFaults)
  \/ \E i \in Procs : HandlerSave(i, MaxFaults)
  \/ \E i \in Procs : CheckForStaleTabsQuery(i)
  \/ \E i \in Procs : CheckForStaleTabsGet(i, MaxFaults)
  \/ \E i \in Procs : CloseAndLogTabRemove(i)
  \/ \E i \in Procs : CloseAndLogTabLoadItems(i, MaxFaults)
  \/ \E i \in Procs : CloseAndLogTabSaveItems(i, MaxFaults)
  \/ \E i \in Procs : CloseAndLogTabFetch(i)
  \/ \E i \in Procs : CheckForStaleTabsSave(i, MaxFaults)
  \/ \E i \in Procs : Return(i)

SpecCall == InitCall /\ [][NextCall]_vars

\* ------------------------------------------------------ the periodic alarm
\* The alarm fires again and again (periodInMinutes), whatever else happened.
PeriodicAlarm ==
  /\ alarm
  /\ ~Ended
  /\ Spawn(1, Scan)
  /\ UNCHANGED <<clock, tabs, nextTabId, storage, alarm, pendingRemoved, markdown,
                 faults, events, quiet>>

\* A step of an invocation in flight, no storage call failing.
ProcStep ==
  \/ \E i \in Procs : HandleTabCreatedLoad(i, 0)
  \/ \E i \in Procs : HandleTabRemovedLoad(i, 0)
  \/ \E i \in Procs : HandlerSave(i, 0)
  \/ \E i \in Procs : EnsureAlarmGet(i)
  \/ \E i \in Procs : EnsureAlarmCreate(i)
  \/ \E i \in Procs : InitialiseExistingTabsQuery(i)
  \/ \E i \in Procs : InitialiseExistingTabsGet(i, 0)
  \/ \E i \in Procs : InitialiseExistingTabsSave(i, 0)
  \/ \E i \in Procs : CheckForStaleTabsQuery(i)
  \/ \E i \in Procs : CheckForStaleTabsGet(i, 0)
  \/ \E i \in Procs : CloseAndLogTabRemove(i)
  \/ \E i \in Procs : CloseAndLogTabLoadItems(i, 0)
  \/ \E i \in Procs : CloseAndLogTabSaveItems(i, 0)
  \/ \E i \in Procs : CloseAndLogTabFetch(i)
  \/ \E i \in Procs : CheckForStaleTabsSave(i, 0)
  \/ \E i \in Procs : Return(i)

\* Tabs are opened and then left alone: nobody focuses, changes or closes
\* them; time passes, the alarm keeps firing and every await settles.
NextLive ==
  \/ OnCreated(1, MaxEvents, Urls)
  \/ OnRemoved(1)
  \/ PeriodicAlarm
  \/ Tick(Instants)
  \/ ProcStep

SpecLive ==
  /\ Init
  /\ [][NextLive]_vars
  /\ WF_vars(ProcStep)
  /\ SF_vars(OnRemoved(1))
  /\ SF_vars(PeriodicAlarm)
  /\ SF_vars(Tick(Instants))

\* ================================================================ properties
\* The qualifying URLs of the glossary: scheme http: or https:.
HttpUrls == {"http://x", "https://y"}

Store == loadTabMetadata(storage)
Queue == loadClosedItems(storage)

Scans == {i \in Procs : procs[i].kind = "scan"}
Inits == {i \in Procs : procs[i].kind = "init"}
Handlers == {i \in Procs : procs[i].kind \in {"created", "updated", "activated"}}

\* The closeAndLogTab calls of scan p so far: the finished ones and the one
\* in progress.
PipesOf(p) ==
  p.pipes \o (IF p.pc \in {"remove", "qload", "qsave", "fetch"} THEN <<p.cur>> ELSE <<>>)

\* How often scan p has called closeAndLogTab for tab id, and how many of
\* these calls have written the ClosedItem to the queue.
Calls(p, id) == Cardinality({k \in DOMAIN PipesOf(p) : PipesOf(p)[k].tabId = id})
Appends(p, id) ==
  Cardinality({k \in DOMAIN p.pipes :
                 /\ p.pipes[k].tabId = id
                 /\ "append" \in p.pipes[k].tried \ p.pipes[k].failed})

\* The tabs of scan p's snapshot, once it is taken.
Snapshot(p) == IF p.i = 0 THEN {} ELSE {p.tabsSnap[k] : k \in DOMAIN p.tabsSnap}

\* Scan p kept the record of tab unchanged, in its map and in what it saved.
Kept(p, tab) ==
  LET key == String(tab.id) IN
  /\ key \in DOMAIN p.metadata
  /\ p.metadata[key] = p.loaded[key]
  /\ (p.pc = "done" /\ p.saved) => (key \in DOMAIN Store /\ Store[key] = p.loaded[key])

\* C1 (as stated, for the open, unpinned http/https tabs of the snapshot): a
\* scan that returns normally has closed every tab whose loaded record has
\* now - lastActiveAt >= STALE_THRESHOLD_MS exactly once, saved a map without
\* its record, and appended exactly one ClosedItem for it.
C1_StaleRecordsAreEvicted ==
  \A i \in Scans :
    LET p == procs[i] IN
    (p.pc = "done" /\ ~p.thrown) =>
      \A tab \in Snapshot(p) :
        LET key == String(tab.id) IN
        ( /\ ~tab.pinned
          /\ tab.url \in HttpUrls
          /\ key \in DOMAIN p.loaded
          /\ p.now - p.loaded[key].lastActiveAt >= STALE_THRESHOLD_MS )
        => /\ Calls(p, tab.id) = 1
           /\ Appends(p, tab.id) = 1
           /\ p.saved
           /\ key \notin DOMAIN Store

\* C2 (Scenario A): a record with openedAt = lastActiveAt = t0 and
\* firstUrl = currentUrl = u, of an unpinned tab showing an http/https page,
\* scanned at now >= t0 + STALE_THRESHOLD_MS by a scan that returns normally:
\* the tab is closed, its record is gone from the store, and a ClosedItem with
\* openedAt = t0, url = u and closedAt >= now is in the queue.
C2_ScenarioA ==
  \A i \in Scans :
    LET p == procs[i] IN
    (p.pc = "done" /\ ~p.thrown) =>
      \A tab \in Snapshot(p) :
        LET key == String(tab.id) IN
        ( /\ ~tab.pinned
          /\ tab.url \in HttpUrls
          /\ key \in DOMAIN p.loaded
          /\ p.loaded[key].lastActiveAt = p.loaded[key].openedAt
          /\ p.loaded[key].currentUrl = p.loaded[key].firstUrl
          /\ p.now - p.loaded[key].openedAt >= STALE_THRESHOLD_MS )
        => /\ tab.id \notin DOMAIN tabs
           /\ key \notin DOMAIN Store
           /\ \E k \in DOMAIN Queue :
                /\ Queue[k].openedAt = p.loaded[key].openedAt
                /\ Queue[k].url = p.loaded[key].firstUrl
                /\ Queue[k].closedAt >= p.now

\* C3 (Scenario B): a tab of the snapshot whose loaded record has
\* now - lastActiveAt < STALE_THRESHOLD_MS is not closed by the scan, no
\* ClosedItem is built for it, and its record is in the map the scan persists,
\* unchanged.
C3_FreshTabSurvives ==
  \A i \in Scans :
    LET p == procs[i] IN
    \A tab \in Snapshot(p) :
      LET key == String(tab.id) IN
      ( /\ key \in DOMAIN p.loaded
        /\ p.now - p.loaded[key].lastActiveAt < STALE_THRESHOLD_MS )
      => /\ Calls(p, tab.id) = 0
         /\ Kept(p, tab)

\* Scenario B itself: opened at 0, last active after 23 hours, scanned after
\* 24 hours; the scan has saved and the tab is still open.
C3_ScenarioB ==
  \E i \in Scans :
    LET p == procs[i] IN
    /\ p.pc = "done" /\ p.saved /\ p.now = STALE_THRESHOLD_MS
    /\ \E tab \in Snapshot(p) :
         LET key == String(tab.id) IN
         /\ key \in DOMAIN p.loaded
         /\ p.loaded[key].openedAt = 0
         /\ p.loaded[key].lastActiveAt = 23 * HOUR_MS
         /\ tab.id \in DOMAIN tabs
         /\ key \in DOMAIN Store

\* C4 (Scenario C): a tab of the snapshot that is pinned, or whose URL is not
\* an http/https URL, is never closed by the scan, whatever the age of its
\* record; no ClosedItem is built for it and its record, if it has one, is
\* persisted unchanged.
C4_PinnedAndNonHttpNeverClosed ==
  \A i \in Scans :
    LET p == procs[i] IN
    \A tab \in Snapshot(p) :
      (tab.pinned \/ tab.url \notin HttpUrls) =>
        /\ Calls(p, tab.id) = 0
        /\ String(tab.id) \in DOMAIN p.loaded => Kept(p, tab)

\* A finished scan met a pinned tab whose record was inactive for at least
\* the threshold, and the tab and its record are still there.
C4_ScenarioC ==
  \E i \in Scans :
    LET p == procs[i] IN
    /\ p.pc = "done" /\ p.saved
    /\ \E tab \in Snapshot(p) :
         LET key == String(tab.id) IN
         /\ tab.pinned
         /\ key \in DOMAIN p.loaded
         /\ p.loaded[key].lastActiveAt > 0
         /\ p.now - p.loaded[key].lastActiveAt >= STALE_THRESHOLD_MS
         /\ tab.id \in DOMAIN tabs
         /\ key \in DOMAIN Store

AllSteps == {"close", "append", "push", "broadcast"}

\* C5 (Scenario D): a closeAndLogTab call in which closing the tab or the
\* network push failed, and the queue storage did not, has written its
\* ClosedItem to the queue, once, and has run to its end: the scan that
\* awaits it goes on.
C5_CloseOrPushFailureStillLogs ==
  \A i \in Scans :
    LET p == procs[i] IN
    /\ (p.pc = "fetch" /\ "close" \in p.cur.failed) =>
         /\ Queue = p.items
         /\ Len(Queue) >= 1
         /\ Queue[Len(Queue)] = p.cur.item
    /\ \A k \in DOMAIN p.pipes :
         ( /\ p.pipes[k].failed \cap {"close", "push"} # {}
           /\ "append" \notin p.pipes[k].failed )
         => /\ p.pipes[k].tried = AllSteps
            /\ Appends(p, p.pipes[k].tabId) = 1

\* A finished closeAndLogTab call in which both the close and the push
\* failed, with its item in the queue.
C5_BothFailed ==
  \E i \in Scans :
    \E k \in DOMAIN procs[i].pipes :
      /\ procs[i].pipes[k].failed = {"close", "push"}
      /\ \E j \in DOMAIN Queue : Queue[j] = procs[i].pipes[k].item

\* The operation left the record of key as it loaded it: none before, none
\* after; or the same record.
Same(p, key) ==
  /\ key \in DOMAIN p.metadata <=> key \in DOMAIN p.loaded
  /\ key \in DOMAIN p.loaded => p.metadata[key] = p.loaded[key]

\* The URL a tab listener sees: the event's tab for onCreated and onUpdated,
\* the tab fetched with chrome.tabs.get for onActivated (which fetches none
\* when the tab has a record: then the URL the tab had at the event).
Observed(p) == IF p.kind = "activated" /\ p.tab = NoTab THEN p.eventUrl ELSE p.tab.url

SnapshotOf(p) == {p.tabsSnap[k] : k \in DOMAIN p.tabsSnap}

\* C6 (as stated): an operation that meets a tab with a non-qualifying URL
\* neither creates a record for it nor changes any field of its record.
C6_NonQualifyingUntouched ==
  /\ \A i \in Handlers :
       procs[i].eventUrl \notin HttpUrls => Same(procs[i], String(procs[i].tabId))
  /\ \A i \in Inits \cup Scans :
       \A tab \in SnapshotOf(procs[i]) :
         tab.url \notin HttpUrls => Same(procs[i], String(tab.id))

\* C6 (amended): an operation that meets a tab with a non-qualifying URL
\* creates no record for it and leaves openedAt, firstUrl and currentUrl of
\* its record unchanged; onUpdated may change the title of the record and
\* onActivated its lastActiveAt, and nothing else; onCreated, the Initializer
\* and the scan leave the record unchanged.
C6_NonQualifyingNotTracked ==
  /\ \A i \in Handlers :
       LET p == procs[i]
           key == String(p.tabId)
       IN  Observed(p) \notin HttpUrls =>
             /\ key \in DOMAIN p.metadata <=> key \in DOMAIN p.loaded
             /\ key \in DOMAIN p.loaded =>
                  /\ p.metadata[key].openedAt = p.loaded[key].openedAt
                  /\ p.metadata[key].firstUrl = p.loaded[key].firstUrl
                  /\ p.metadata[key].currentUrl = p.loaded[key].currentUrl
                  /\ p.kind # "activated" =>
                       p.metadata[key].lastActiveAt = p.loaded[key].lastActiveAt
                  /\ p.kind # "updated" => p.metadata[key].title = p.loaded[key].title
  /\ \A i \in Inits \cup Scans :
       \A tab \in SnapshotOf(procs[i]) :
         tab.url \notin HttpUrls => Same(procs[i], String(tab.id))

\* onUpdated for a tab showing a non-qualifying URL has saved a new title
\* into the tab's record.
C6_TitleOfNonQualifying ==
  \E i \in Handlers :
    LET p == procs[i]
        key == String(p.tabId)
    IN  /\ p.kind = "updated" /\ p.pc = "done" /\ p.saved
        /\ p.tab.url \notin HttpUrls
        /\ key \in DOMAIN p.loaded
        /\ p.metadata[key].title # p.loaded[key].title
        /\ Store[key] = p.metadata[key]

\* C7: every record of the persisted Metadata Store has
\* lastActiveAt >= openedAt, in every state of every interleaving.
C7_LastActiveNotBeforeOpened ==
  \A key \in DOMAIN Store : Store[key].lastActiveAt >= Store[key].openedAt

\* Two invocations are in flight and the store holds a record that has been
\* active after it was opened.
C7_Interleaved ==
  /\ Len(procs) = 2
  /\ \E key \in DOMAIN Store : Store[key].lastActiveAt > Store[key].openedAt

\* C8: an Initializer run that started and ended with no tab event since the
\* end of the previous run saves nothing and leaves the Metadata Store as the
\* previous run left it.
C8_InitializerIdempotent ==
  \A i \in Inits :
    LET p == procs[i] IN
    (p.pc = "done" /\ p.second) =>
      /\ ~p.saved
      /\ ~p.changed
      /\ Store = p.prior[1]

\* A second run has ended over a store in which the first run has inserted
\* a record.
C8_SecondRun ==
  \E i \in Inits :
    LET p == procs[i] IN
    /\ p.pc = "done" /\ p.second /\ ~p.thrown
    /\ p.tabsSnap # <<>>
    /\ DOMAIN p.prior[1] # {}

\* The threshold C9 expects a scan to use: the persisted hours, else 24 hours.
ExpectedThreshold(p) ==
  IF p.hours # <<>> THEN p.hours[1] * HOUR_MS ELSE STALE_THRESHOLD_MS

\* C9 (as stated): a scan that returns normally has closed an unpinned
\* http/https tab with a record exactly when now - lastActiveAt reaches the
\* persisted number of hours, or 24 hours if none is persisted.  (Records
\* with lastActiveAt = 0 are left out: they are the case of C2.)
C9_PersistedThresholdUsed ==
  \A i \in Scans :
    LET p == procs[i] IN
    (p.pc = "done" /\ ~p.thrown) =>
      \A tab \in Snapshot(p) :
        LET key == String(tab.id) IN
        ( /\ ~tab.pinned
          /\ tab.url \in HttpUrls
          /\ key \in DOMAIN p.loaded
          /\ p.loaded[key].lastActiveAt > 0 )
        => ( Calls(p, tab.id) >= 1
               <=> p.now - p.loaded[key].lastActiveAt >= ExpectedThreshold(p) )

\* C10 (as stated): every closeAndLogTab call attempts all four steps after
\* building the ClosedItem, whichever of them fail.
C10_StepsIndependent ==
  \A i \in Scans :
    \A k \in DOMAIN procs[i].pipes : procs[i].pipes[k].tried = AllSteps

\* C11 (as stated): no failure of a storage call escapes an operation: no
\* listener invocation ends with a rejection.
C11_NoFailureEscapes ==
  \A i \in Procs : ~procs[i].thrown

\* C12 (as stated): the onInstalled / onStartup listener runs
\* checkForStaleTabs: when it has returned normally a scan has been started.
C12_StartupScans ==
  \A i \in Inits :
    (procs[i].pc = "done" /\ ~procs[i].thrown) => Scans # {}

\* C13 (as stated): every write of the Closed-Items Queue extends the queue
\* that was persisted before by exactly one item at its end.
C13_QueueAppendOnly ==
  [][ Queue' # Queue =>
        /\ Len(Queue') = Len(Queue) + 1
        /\ SubSeq(Queue', 1, Len(Queue)) = Queue ]_vars

\* Where the link text that opens at position k - 1 of a line ends: the first
\* "]" at bracket depth 0 that no backslash escapes (a backslash escapes the
\* punctuation character after it); 0 if there is none.
RECURSIVE LinkTextEnd(_, _, _)
LinkTextEnd(line, k, depth) ==
  IF k > Len(line) THEN 0
  ELSE IF line[k] = "\\" /\ k < Len(line) /\ line[k + 1] \in {"[", "]", "\\", "(", ")"}
       THEN LinkTextEnd(line, k + 2, depth)
  ELSE IF line[k] = "[" THEN LinkTextEnd(line, k + 1, depth + 1)
  ELSE IF line[k] = "]"
       THEN IF depth = 0 THEN k ELSE LinkTextEnd(line, k + 1, depth - 1)
  ELSE LinkTextEnd(line, k + 1, depth)

Generations == {i \in Procs : procs[i].kind = "generate"}

\* C14 (as stated): in the line generated for every item of the queue, the
\* link text that opens after "- [ ] [" ends at the "]" the builder wrote
\* before "(", and nowhere before it.
C14_LinkTextEndsAtBuilderBracket ==
  \A i \in Generations :
    LET p == procs[i] IN
    (p.pc = "done" /\ ~p.failed) =>
      \A k \in DOMAIN p.items :
        LET item == p.items[k]
            title == escapeMarkdownLinkText(OrText(item.title, OrText(item.url, Untitled)))
        IN  \E j \in DOMAIN markdown :
              /\ markdown[j] = LinkLine(item)
              /\ LinkTextEnd(markdown[j], 8, 0) = 8 + Len(title)

\* The last instant of the time domain.
LastInstant == MaxDays * STALE_THRESHOLD_MS + 1

\* Tab id is open, unpinned, on an http/https page, and has a record that
\* reaches the threshold within the time domain.
Forgotten(id) ==
  /\ id \in DOMAIN tabs
  /\ ~tabs[id].pinned
  /\ tabs[id].url \in HttpUrls
  /\ String(id) \in DOMAIN Store
  /\ Store[String(id)].lastActiveAt + STALE_THRESHOLD_MS <= LastInstant

\* C15 (as stated): with the alarm firing again and again, time passing and
\* no storage failure, a tab that is left alone is eventually closed by the
\* scanner and logged, whatever the time at which it was recorded.
C15_ForgottenTabsAgeOut ==
  \A id \in TabIds :
    Forgotten(id) ~> (id \notin DOMAIN tabs /\ Queue # <<>>)

\* C16: a save replaces the whole Metadata Store by the map of the operation
\* that saves, whatever another operation has stored since this one loaded:
\* what the other operation changed is gone unless this one changed it too.
C16_SaveReplacesWholeMap ==
  \A i \in Procs :
    (procs[i].pc = "done" /\ procs[i].saved) => Store = procs[i].metadata

\* A scan that was suspended in closeAndLogTab has saved: the store it
\* replaced held a later lastActiveAt for a tab than the scan had loaded, and
\* the store now holds the one the scan had loaded.
C16_LostBump ==
  \E i \in Scans :
    LET p == procs[i] IN
    /\ p.pc = "done" /\ p.saved /\ Len(p.pipes) >= 1
    /\ \E key \in DOMAIN p.before \cap DOMAIN p.loaded \cap DOMAIN Store :
         /\ p.before[key].lastActiveAt > p.loaded[key].lastActiveAt
         /\ Store[key].lastActiveAt = p.loaded[key].lastActiveAt

\* C17 (as stated): when a scan closes a tab, a focus of the tab that the
\* store records (lastActiveAt later than openedAt) lies at least the
\* threshold back.
C17_UsedTabNotClosed ==
  [][ \A i \in Scans :
        LET id == procs[i].cur.tabId
            key == String(id)
        IN  ( /\ procs[i].pc = "remove"
              /\ id \in DOMAIN tabs
              /\ id \notin DOMAIN tabs'
              /\ events' = events
              /\ key \in DOMAIN Store
              /\ Store[key].lastActiveAt > Store[key].openedAt )
            => clock - Store[key].lastActiveAt >= STALE_THRESHOLD_MS ]_vars

\* The closeAndLogTab calls of the scans in flight that have written an item
\* for tab id to the queue.
LoggedPipes(id) ==
  {c \in Procs \X (1..MaxTabs) :
     /\ c[1] \in Scans
     /\ c[2] \in DOMAIN PipesOf(procs[c[1]])
     /\ PipesOf(procs[c[1]])[c[2]].tabId = id
     /\ IF c[2] \in DOMAIN procs[c[1]].pipes
        THEN "append" \in procs[c[1]].pipes[c[2]].tried \ procs[c[1]].pipes[c[2]].failed
        ELSE procs[c[1]].pc = "fetch"}

\* C18 (as stated): no tab is logged twice: at most one closeAndLogTab call
\* writes a ClosedItem for it.
C18_LoggedAtMostOnce ==
  \A id \in TabIds : Cardinality(LoggedPipes(id)) <= 1

\* C19: a scan reads the open tabs once and the Metadata Store once, both
\* before the sweep starts, and writes the store once, when the sweep is over,
\* however many tabs it evicts: during the sweep its map is the loaded one,
\* changed only by the sweep itself.
C19_OneReadOneWrite ==
  \A i \in Scans :
    LET p == procs[i] IN
    /\ p.reads = (IF p.i # 0 THEN 2
                  ELSE IF p.pc \in {"query", "get"} THEN 1
                  ELSE IF p.pc = "snapshot" THEN 0
                  ELSE p.reads)
    /\ p.reads <= 2
    /\ p.writes = (IF p.pc = "done" THEN 1 ELSE 0)
    /\ \A key \in DOMAIN p.metadata :
         IF key \in DOMAIN p.loaded
         THEN p.metadata[key] = p.loaded[key]
         ELSE p.metadata[key].openedAt = p.now

\* A scan that has evicted two tabs has read the tabs once and the store once,
\* and written once.
C19_TwoEvictions ==
  \E i \in Scans :
    LET p == procs[i] IN
    /\ p.pc = "done" /\ p.saved
    /\ Len(p.pipes) = 2
    /\ p.reads = 2 /\ p.writes = 1

\* C20: a scan never closes an unpinned http/https tab of its snapshot that
\* has no record in the loaded map; once the sweep is over its map holds a
\* record for the tab with openedAt = lastActiveAt = the scan's now, and so
\* does the store after the scan's save.
C20_UnknownTabGetsRecord ==
  \A i \in Scans :
    LET p == procs[i] IN
    \A tab \in Snapshot(p) :
      LET key == String(tab.id) IN
      (~tab.pinned /\ tab.url \in HttpUrls /\ key \notin DOMAIN p.loaded) =>
        /\ Calls(p, tab.id) = 0
        /\ (p.pc \in {"save", "done"} /\ ~p.thrown) =>
             /\ key \in DOMAIN p.metadata
             /\ p.metadata[key].openedAt = p.now
             /\ p.metadata[key].lastActiveAt = p.now
        /\ (p.pc = "done" /\ p.saved) =>
             /\ key \in DOMAIN Store
             /\ Store[key].openedAt = p.now
             /\ Store[key].lastActiveAt = p.now

\* A scan at a time later than 0 has saved a record it made for a tab that
\* had none.
C20_Synthesized ==
  \E i \in Scans :
    LET p == procs[i] IN
    /\ p.pc = "done" /\ p.saved /\ p.now > 0
    /\ \E tab \in Snapshot(p) :
         LET key == String(tab.id) IN
         /\ ~tab.pinned /\ tab.url \in HttpUrls
         /\ key \notin DOMAIN p.loaded
         /\ key \in DOMAIN Store
         /\ Store[key].openedAt = p.now

\* The record the frame conditions expect for a tab first seen at time now.
FreshRecord(rec, now) == rec.openedAt = now /\ rec.lastActiveAt = now

\* C21: once an Initializer run has its tab list and its map (it is at its
\* save, or over without a rejected load), its map is the loaded
\* map plus a record with openedAt = lastActiveAt = now for every http/https
\* tab of the snapshot that had none; it saves exactly when it has inserted,
\* and the store after the save is that map.
C21_InitializerFrame ==
  \A i \in Inits :
    LET p == procs[i]
        missing == {String(tab.id) : tab \in {t \in SnapshotOf(p) : t.url \in HttpUrls}}
                     \ DOMAIN p.loaded
    IN  (p.pc = "save" \/ (p.pc = "done" /\ (~p.thrown \/ p.changed))) =>
          /\ DOMAIN p.metadata = DOMAIN p.loaded \cup missing
          /\ \A key \in DOMAIN p.loaded : p.metadata[key] = p.loaded[key]
          /\ \A key \in missing : FreshRecord(p.metadata[key], p.now)
          /\ p.pc = "save" => missing # {}
          /\ (p.pc = "done" /\ ~p.thrown) => (p.saved <=> missing # {})
          /\ p.saved => Store = p.metadata

\* A run has saved a map in which it kept a record and inserted another.
C21_KeptAndInserted ==
  \E i \in Inits :
    LET p == procs[i] IN
    /\ p.pc = "done" /\ p.saved
    /\ DOMAIN p.loaded # {}
    /\ DOMAIN p.metadata # DOMAIN p.loaded
    /\ \E key \in DOMAIN p.loaded : Store[key].openedAt < p.now

Activations == {i \in Procs : procs[i].kind = "activated"}
Updates == {i \in Procs : procs[i].kind = "updated"}
Removals == {i \in Procs : procs[i].kind = "removed"}

\* C22: onActivated for a tab with a record changes lastActiveAt of that
\* record to now and nothing else in the map; for a tab without a record that
\* is gone or shows a non-qualifying URL it ends without a save and with the
\* map as loaded.
C22_OnActivatedFrame ==
  \A i \in Activations :
    LET p == procs[i]
        key == String(p.tabId)
    IN  /\ (p.pc \in {"save", "done"} /\ key \in DOMAIN p.loaded) =>
             /\ DOMAIN p.metadata = DOMAIN p.loaded
             /\ \A k \in DOMAIN p.loaded \ {key} : p.metadata[k] = p.loaded[k]
             /\ p.metadata[key].lastActiveAt = p.now
             /\ p.metadata[key].openedAt = p.loaded[key].openedAt
             /\ p.metadata[key].firstUrl = p.loaded[key].firstUrl
             /\ p.metadata[key].currentUrl = p.loaded[key].currentUrl
             /\ p.metadata[key].title = p.loaded[key].title
        /\ ( /\ p.pc \in {"save", "done"}
             /\ key \notin DOMAIN p.loaded
             /\ p.tab.url \notin HttpUrls )
           => (p.pc = "done" /\ ~p.saved /\ p.metadata = p.loaded)

\* onActivated has saved a later lastActiveAt for a tab that has a record.
C22_Bumped ==
  \E i \in Activations :
    LET p == procs[i]
        key == String(p.tabId)
    IN  /\ p.pc = "done" /\ p.saved
        /\ key \in DOMAIN p.loaded
        /\ Store[key].lastActiveAt > p.loaded[key].lastActiveAt
        /\ Store[key].openedAt = p.loaded[key].openedAt

\* C23: onUpdated for a tab with a record sets currentUrl to the tab's URL
\* only when that is an http/https URL, sets title to the tab's title, else
\* the change's title, else keeps it, and changes nothing else in the map;
\* an update without url, title or status "complete" starts no invocation.
C23_OnUpdatedFrame ==
  \A i \in Updates :
    LET p == procs[i]
        key == String(p.tabId)
    IN  /\ p.change.url # "" \/ p.change.title # "" \/ p.change.status = "complete"
        /\ (p.pc \in {"save", "done"} /\ key \in DOMAIN p.loaded) =>
             /\ DOMAIN p.metadata = DOMAIN p.loaded
             /\ \A k \in DOMAIN p.loaded \ {key} : p.metadata[k] = p.loaded[k]
             /\ p.metadata[key].openedAt = p.loaded[key].openedAt
             /\ p.metadata[key].lastActiveAt = p.loaded[key].lastActiveAt
             /\ p.metadata[key].firstUrl = p.loaded[key].firstUrl
             /\ p.metadata[key].currentUrl =
                  (IF p.tab.url \in HttpUrls THEN p.tab.url ELSE p.loaded[key].currentUrl)
             /\ p.metadata[key].title =
                  (IF p.tab.title # "" THEN p.tab.title
                   ELSE IF p.change.title # "" THEN p.change.title
                   ELSE p.loaded[key].title)

\* onUpdated has saved the record of a tab that went from an http/https page
\* to a page that is none: currentUrl is the old one.
C23_KeptCurrentUrl ==
  \E i \in Updates :
    LET p == procs[i]
        key == String(p.tabId)
    IN  /\ p.pc = "done" /\ p.saved
        /\ key \in DOMAIN p.loaded
        /\ p.tab.url = "chrome://z"
        /\ Store[key].currentUrl = p.loaded[key].currentUrl

\* C24: onRemoved deletes the record of its tab from the loaded map and
\* saves when there is one; when there is none it ends without a save and
\* with the map as loaded; no other record changes.
C24_OnRemovedFrame ==
  \A i \in Removals :
    LET p == procs[i]
        key == String(p.tabId)
    IN  p.pc \in {"save", "done"} =>
          /\ DOMAIN p.metadata = DOMAIN p.loaded \ {key}
          /\ \A k \in DOMAIN p.metadata : p.metadata[k] = p.loaded[k]
          /\ key \notin DOMAIN p.loaded => (p.pc = "done" /\ ~p.saved)
          /\ (key \in DOMAIN p.loaded /\ p.pc = "done" /\ ~p.thrown) => p.saved
          /\ p.saved => Store = p.metadata

\* onRemoved has deleted the record of its tab and kept another one.
C24_DeletedOne ==
  \E i \in Removals :
    LET p == procs[i]
        key == String(p.tabId)
    IN  /\ p.pc = "done" /\ p.saved
        /\ key \in DOMAIN p.loaded
        /\ key \notin DOMAIN Store
        /\ DOMAIN Store # {}

\* The calls of closeAndLogTab on its own.
DirectCalls == {i \in Procs : procs[i].kind = "call"}

\* The item of the call `pipe` has the fields closeAndLogTab builds from the
\* record `entry`, stamped with the time of the call.
BuiltFrom(pipe, entry) ==
  LET url == IF entry.currentUrl # "" THEN entry.currentUrl ELSE entry.firstUrl IN
  /\ pipe.item.openedAt = entry.openedAt
  /\ pipe.item.closedAt = pipe.calledAt
  /\ pipe.item.url = url
  /\ pipe.item.title = (IF entry.title # "" THEN entry.title ELSE url)

\* C25: the ClosedItem of every closeAndLogTab call made with a record, by a
\* scan or on its own, is built from that record: openedAt is the record's,
\* closedAt is the time of the call (the scan's now for the first call of a
\* run), url is currentUrl unless empty, else firstUrl, and title is the
\* record's title unless empty, else that url.  A call made without a record
\* has returned at once: it has tried no step (no close, no append, no push)
\* and the tabs, the pending removals and the storage are as they were when
\* it was made.  Every call a scan makes is made with a record.
C25_ClosedItemFields ==
  /\ \A i \in Scans :
       LET p == procs[i] IN
       \A k \in DOMAIN PipesOf(p) :
         LET pipe == PipesOf(p)[k]
             key == String(pipe.tabId)
         IN  /\ key \in DOMAIN p.loaded
             /\ BuiltFrom(pipe, p.loaded[key])
             /\ pipe.calledAt >= p.now
             /\ pipe.calledAt <= clock
             /\ k = 1 => pipe.item.closedAt = p.now
  /\ \A i \in DirectCalls :
       LET p == procs[i] IN
       IF p.entry = <<>>
       THEN /\ p.pc = "done" /\ ~p.thrown
            /\ PipesOf(p) = <<>>
            /\ tabs = p.before.tabs
            /\ pendingRemoved = p.before.pendingRemoved
            /\ storage = p.before.storage
       ELSE /\ Len(PipesOf(p)) = 1
            /\ BuiltFrom(PipesOf(p)[1], p.entry[1])

\* A call without a record has just returned, no storage call has failed,
\* and the queue holds two items of one scan, the second built later than
\* the first, and an item built from a record without a title and without a
\* currentUrl: its url is the firstUrl and its title is that url.
C25_WithAndWithoutRecord ==
  /\ faults = 0
  /\ \E i \in DirectCalls : procs[i].entry = <<>> /\ procs[i].pc = "done"
  /\ \E a, b \in DOMAIN Queue :
       /\ a < b
       /\ Queue[a].openedAt = 0 /\ Queue[b].openedAt = 0
       /\ Queue[b].closedAt > Queue[a].closedAt
  /\ \E j \in DOMAIN Queue :
       /\ Queue[j].openedAt = 1
       /\ Queue[j].url = "https://y" /\ Queue[j].title = "https://y"

\* C26: every ClosedItem in the Closed-Items Queue has
\* closedAt - openedAt >= STALE_THRESHOLD_MS, under every interleaving.
C26_ClosedAfterThreshold ==
  \A k \in DOMAIN Queue :
    Queue[k].closedAt - Queue[k].openedAt >= STALE_THRESHOLD_MS

\* With two invocations in flight, the queue holds an item closed exactly
\* the threshold after it was opened.
C26_AtTheBoundary ==
  /\ Len(procs) = 2
  /\ \E k \in DOMAIN Queue :
       Queue[k].closedAt - Queue[k].openedAt = STALE_THRESHOLD_MS

====
